---- MODULE Spec2Model ----
(***************************************************************************)
(* State-machine model of src/app/tennis/player-analysis/page.tsx:         *)
(*   - the PlayerAnalysis page (React state, event handlers, effects and   *)
(*     the asynchronous startTennisAnalysis run), and                      *)
(*   - the TennisResultsPage (fetchAnalysis effect).                       *)
(* Lengths of time are counted in quarter seconds, so that                 *)
(* Math.floor(duration * 2) and frameIndex / 2 are computed, not assumed.  *)
(***************************************************************************)
EXTENDS Integers, Sequences, FiniteSets, TLC

\* ------------------------------------------------------------------ bounds
MaxRuns == 2          \* analyses started per behaviour (caps the uuid counter)
MaxBoxes == 2         \* boxes handed over by the bounding box selector
MaxDurationQ == 9     \* longest video, in quarter seconds

\* --------------------------------------------------------------- constants
frameRate == 2        \* page.tsx:93
QuartersPerSecond == 4  \* time unit of the model (duration 1 s = 4 quarters)

NULL == "null"      \* null where the value is a string
None == <<>>        \* null where the value is an object or an array

Labels == {"player", "ball"}
Urls == {"blob:video"}
Names == {"match.mp4"}
Messages == {"", "boom"}    \* Error.message of a thrown error ("" is falsy)
DurationsQ == 0..MaxDurationQ
VideoSizes == {[width |-> 640, height |-> 360]}

MsgInit == "Initializing tennis analysis..."
MsgExtract == "Extracting video frames..."
MsgTrack == "Tracking player and ball..."
MsgAnalyze == "Analyzing player performance..."

ErrBoxes == "Please draw bounding boxes for both the player and the ball."
ErrNotLoaded == "Video not properly loaded. Please try again."
ErrLoadVideo == "Failed to load video"
ErrAnalyzing == "Error analyzing video"
ErrMetadata == "Error loading video metadata"
ErrFetch == "Error fetching analysis"
ErrFetchFailed == "Failed to fetch analysis"
ErrQuota == "QuotaExceededError"
ErrUndefined == "Cannot read properties of undefined"

VARIABLES
  \* PlayerAnalysis: React state (page.tsx:15-25)
  videoUrl, fileName, isAnalyzing, progress, error, analysisId,
  processingMessage, showBoundingBoxSelector, selectedBoxes, videoMetadata,
  showUploader,
  \* the metadata effect's <video> element (page.tsx:187-211)
  metaSrc, metaState,
  \* the uploaded file as the browser sees it
  videoFile,
  \* one run of startTennisAnalysis (page.tsx:54-184)
  pc, nextUuid, duration, totalFrames, frameIndex, frames,
  attempted, trackCalls, frameErrors, generateArgs,
  \* browser
  localStorage, route,
  \* TennisResultsPage (page.tsx:360-435)
  resId, resVideoUrl, resPc, analysis, tennisAnalysis, loading, resError,
  apiFetched,
  \* what the user did last on the selector: cancelled it, or handed over boxes
  \* (the argument of the latest handleBoxesSelected call and a call parity)
  cancelled, handled

pageVars == <<videoUrl, fileName, isAnalyzing, progress, error, analysisId,
              processingMessage, showBoundingBoxSelector, selectedBoxes,
              videoMetadata, showUploader>>
metaVars == <<metaSrc, metaState>>
runVars == <<pc, nextUuid, duration, totalFrames, frameIndex, frames,
             attempted, trackCalls, frameErrors, generateArgs>>
resVars == <<resId, resVideoUrl, resPc, analysis, tennisAnalysis, loading,
             resError, apiFetched>>
vars == <<pageVars, metaVars, videoFile, runVars, localStorage, route,
          resVars, cancelled, handled>>

\* ------------------------------------------------------------ pure helpers

\* error.message || fallback
OrElse(message, fallback) == IF message = "" \/ message = NULL THEN fallback ELSE message

\* boxes.some(box => box.label === label)
SomeLabel(boxes, label) == \E i \in 1..Len(boxes) : boxes[i].label = label

BoxLists == UNION {[1..n -> [label : Labels]] : n \in 0..MaxBoxes}

\* `tennis-${uuidv4()}`
NewAnalysisId(uuid) == <<"tennis-", uuid>>

\* `analysis-${id}`
StorageKey(id) == <<"analysis-", id>>

\* Math.floor(duration * frameRate), duration given in quarter seconds
TotalFrames(durationQ) == (durationQ * frameRate) \div QuartersPerSecond

\* frameIndex / frameRate, in quarter seconds
Timestamp(fi) == (fi * QuartersPerSecond) \div frameRate

\* mutant: progress counts the frame just finished as one more
ProgressMutant(fi, tf) == [num |-> (fi + 1) * 100, den |-> tf]

\* (frameIndex / totalFrames) * 100, kept exact as a fraction
Progress(fi, tf) == [num |-> fi * 100, den |-> tf]
ZeroProgress == [num |-> 0, den |-> 1]

\* the message chosen at the head of an iteration
MessageFor(fi, tf) ==
  IF 10 * fi < 3 * tf THEN MsgExtract
  ELSE IF 10 * fi < 6 * tf THEN MsgTrack
  ELSE MsgAnalyze

\* JSON.stringify writes NaN as null; JSON.parse reads the text back
JSONnumber(v) == IF v = "NaN" THEN "null" ELSE v
JSONstringify(r) ==
  [json |-> [frames |-> r.frames,
             playerStats |-> [averageSpeed |-> JSONnumber(r.playerStats.averageSpeed)]]]
JSONparse(s) == s.json

\* ------------------------------------------- the tennis-tracker library

InitializeTennisTracker(boxes, width, height) ==
  [initialFrame |-> [frameIndex |-> 0, timestamp |-> 0], pixelsToMeters |-> 1]

TrackFrame(fi, timestamp, previousFrame) ==
  [frameIndex |-> fi, timestamp |-> timestamp]

GenerateAnalysisResult(frs) ==
  {[frames |-> frs, playerStats |-> [averageSpeed |-> s]] : s \in {"NaN", "7.5"}}

\* ------------------------------------------------------------------- Init

ResultsUnmounted ==
  /\ resId = None /\ resVideoUrl = NULL /\ resPc = "none"
  /\ analysis = None /\ tennisAnalysis = None /\ loading = TRUE
  /\ resError = NULL

PageInit ==
  /\ videoUrl = NULL /\ fileName = NULL /\ isAnalyzing = FALSE
  /\ progress = ZeroProgress /\ error = NULL /\ analysisId = None
  /\ processingMessage = NULL /\ showBoundingBoxSelector = FALSE
  /\ selectedBoxes = None /\ videoMetadata = None /\ showUploader = FALSE
  /\ metaSrc = NULL /\ metaState = "none"
  /\ videoFile = None
  /\ pc = "idle" /\ duration = 0 /\ totalFrames = 0 /\ frameIndex = 0
  /\ frames = <<>> /\ attempted = <<>> /\ trackCalls = <<>>
  /\ frameErrors = 0 /\ generateArgs = None
  /\ cancelled = FALSE /\ handled = None

Init ==
  /\ PageInit
  /\ nextUuid = 1
  /\ localStorage = <<>>
  /\ route = "analysis"
  /\ ResultsUnmounted
  /\ apiFetched = {}

\* ----------------------------------------------- render conditions, effects

ChooserRendered == ~showUploader /\ ~showBoundingBoxSelector /\ ~isAnalyzing
UploaderRendered == showUploader /\ ~showBoundingBoxSelector /\ ~isAnalyzing
SelectorRendered == videoUrl # NULL /\ showBoundingBoxSelector /\ ~isAnalyzing
AnalyzingRendered == isAnalyzing

\* the metadata effect has to run: videoUrl differs from the one it last saw
MetadataEffectDue == videoUrl # metaSrc
\* mutant: the effect does not test videoUrl
SelectorEffectDueMutant == ~showBoundingBoxSelector /\ ~isAnalyzing

\* the selector effect would set state
SelectorEffectDue == videoUrl # NULL /\ ~showBoundingBoxSelector /\ ~isAnalyzing
EffectsPending == route = "analysis" /\ (MetadataEffectDue \/ SelectorEffectDue)

\* the user acts on a page whose effects have run
UserCanAct == route = "analysis" /\ ~EffectsPending

\* ------------------------------------------------- PlayerAnalysis: handlers

StartPlayerAnalysis ==
  /\ UserCanAct /\ ChooserRendered
  /\ showUploader' = TRUE
  /\ cancelled' = FALSE
  /\ UNCHANGED handled
  /\ UNCHANGED <<videoUrl, fileName, isAnalyzing, progress, error, analysisId,
                 processingMessage, showBoundingBoxSelector, selectedBoxes,
                 videoMetadata, metaVars, videoFile, runVars, localStorage,
                 route, resVars>>

UploaderBack ==
  /\ UserCanAct /\ UploaderRendered
  /\ showUploader' = FALSE
  /\ UNCHANGED <<videoUrl, fileName, isAnalyzing, progress, error, analysisId,
                 processingMessage, showBoundingBoxSelector, selectedBoxes,
                 videoMetadata, metaVars, videoFile, runVars, localStorage,
                 route, resVars, cancelled,
                 handled>>

HandleUploadComplete ==
  /\ UserCanAct /\ UploaderRendered
  /\ \E url \in Urls, name \in Names, d \in DurationsQ, size \in VideoSizes :
       /\ videoUrl' = url
       /\ fileName' = name
       /\ videoFile' = [width |-> size.width, height |-> size.height, duration |-> d]
  /\ UNCHANGED <<isAnalyzing, progress, error, analysisId, processingMessage,
                 showBoundingBoxSelector, selectedBoxes, videoMetadata,
                 showUploader, metaVars, runVars, localStorage, route, resVars,
                 cancelled,
                 handled>>

\* one flush of the page's two effects, in source order
UseEffects ==
  /\ EffectsPending
  /\ IF MetadataEffectDue
       THEN metaSrc' = videoUrl /\ metaState' = "loading"
       ELSE UNCHANGED metaVars
  /\ IF SelectorEffectDue
       THEN showBoundingBoxSelector' = TRUE
       ELSE UNCHANGED showBoundingBoxSelector
  /\ UNCHANGED <<videoUrl, fileName, isAnalyzing, progress, error, analysisId,
                 processingMessage, selectedBoxes, videoMetadata, showUploader,
                 videoFile, runVars, localStorage, route, resVars, cancelled,
                 handled>>

MetadataLoaded ==
  /\ route = "analysis" /\ metaState = "loading"
  /\ metaState' = "loaded"
  /\ videoMetadata' = videoFile
  /\ UNCHANGED <<videoUrl, fileName, isAnalyzing, progress, error, analysisId,
                 processingMessage, showBoundingBoxSelector, selectedBoxes,
                 showUploader, metaSrc, videoFile, runVars, localStorage, route,
                 resVars, cancelled,
                 handled>>

MetadataError ==
  /\ route = "analysis" /\ metaState = "loading"
  /\ metaState' = "error"
  /\ error' = ErrMetadata
  /\ UNCHANGED <<videoUrl, fileName, isAnalyzing, progress, analysisId,
                 processingMessage, showBoundingBoxSelector, selectedBoxes,
                 videoMetadata, showUploader, metaSrc, videoFile, runVars,
                 localStorage, route, resVars, cancelled,
                 handled>>

HandleBoxSelectorCancel ==
  /\ UserCanAct /\ SelectorRendered
  /\ showBoundingBoxSelector' = FALSE
  /\ showUploader' = FALSE
  /\ cancelled' = TRUE
  /\ UNCHANGED handled
  /\ UNCHANGED <<videoUrl, fileName, isAnalyzing, progress, error, analysisId,
                 processingMessage, selectedBoxes, videoMetadata, metaVars,
                 videoFile, runVars, localStorage, route, resVars>>

\* ------------------------------------------------------ startTennisAnalysis

\* mutant: the catch block forgets setIsAnalyzing(false)
RunCatchMutant(message) ==
  /\ error' = OrElse(message, ErrAnalyzing)
  /\ UNCHANGED isAnalyzing
  /\ pc' = "failed"
  /\ UNCHANGED <<localStorage, route, resVars>>

\* the catch block of startTennisAnalysis (page.tsx:179-183)
RunCatch(message) ==
  /\ error' = OrElse(message, ErrAnalyzing)
  /\ isAnalyzing' = FALSE
  /\ pc' = "failed"
  /\ UNCHANGED <<localStorage, route, resVars>>

\* the results page as router.push mounts it
MountResults(id, url) ==
  /\ route' = "results"
  /\ resId' = id /\ resVideoUrl' = url /\ resPc' = "mounted"
  /\ analysis' = None /\ tennisAnalysis' = None /\ loading' = TRUE
  /\ resError' = NULL
  /\ UNCHANGED apiFetched

\* mutant: a failing setItem is swallowed and the page navigates all the same
FinishRunMutant(frs) ==
  /\ generateArgs' = frs
  /\ \/ \E m \in Messages : RunCatch(m)
     \/ /\ UNCHANGED localStorage
        /\ MountResults(analysisId, videoUrl)
        /\ pc' = "navigated"
        /\ UNCHANGED <<error, isAnalyzing>>
     \/ \E result \in GenerateAnalysisResult(frs) :
          /\ localStorage' = (StorageKey(analysisId) :> JSONstringify(result)) @@ localStorage
          /\ MountResults(analysisId, videoUrl)
          /\ pc' = "navigated"
          /\ UNCHANGED <<error, isAnalyzing>>

\* after the loop: generateAnalysisResult, localStorage.setItem, router.push
\* (page.tsx:162-178), all in one synchronous stretch
FinishRun(frs) ==
  /\ generateArgs' = frs
  /\ \/ \E m \in Messages : RunCatch(m)          \* generateAnalysisResult throws
     \/ RunCatch(ErrQuota)                       \* localStorage.setItem throws
     \/ \E result \in GenerateAnalysisResult(frs) :
          /\ localStorage' = (StorageKey(analysisId) :> JSONstringify(result)) @@ localStorage
          /\ MountResults(analysisId, videoUrl)
          /\ pc' = "navigated"
          /\ UNCHANGED <<error, isAnalyzing>>

\* the head of the for loop with frameIndex = fi (page.tsx:100-124): either the
\* next iteration starts and waits for 'seeked', or the loop is over
ContinueLoop(fi, tf, frs) ==
  /\ frameIndex' = fi
  /\ IF fi < tf
       THEN /\ processingMessage' = MessageFor(fi, tf)
            /\ attempted' = Append(attempted, [frameIndex |-> fi, timestamp |-> Timestamp(fi)])
            /\ pc' = "seek"
            /\ UNCHANGED <<error, isAnalyzing, localStorage, route, resVars, generateArgs>>
       ELSE /\ UNCHANGED <<processingMessage, attempted>>
            /\ FinishRun(frs)

\* startTennisAnalysis up to its first await (page.tsx:54-87)
StartTennisAnalysis(boxes) ==
  IF videoUrl = NULL \/ videoMetadata = None
    THEN /\ error' = ErrNotLoaded
         /\ UNCHANGED <<isAnalyzing, progress, processingMessage, analysisId, runVars>>
    ELSE /\ nextUuid <= MaxRuns
         /\ progress' = ZeroProgress
         /\ processingMessage' = MsgInit
         /\ analysisId' = NewAnalysisId(nextUuid)
         /\ nextUuid' = nextUuid + 1
         /\ duration' = 0 /\ totalFrames' = 0 /\ frameIndex' = 0
         /\ frames' = <<>> /\ attempted' = <<>> /\ trackCalls' = <<>>
         /\ frameErrors' = 0 /\ generateArgs' = None
         /\ \/ \E m \in Messages : RunCatch(m)    \* initializeTennisTracker throws
            \/ /\ error' = NULL
               /\ isAnalyzing' = TRUE
               /\ pc' = "loadMeta"

\* mutant: the two label tests joined the wrong way round
BoxesCompleteMutant(boxes) == SomeLabel(boxes, "player") \/ SomeLabel(boxes, "ball")

\* both labels are present (page.tsx:37)
BoxesComplete(boxes) == SomeLabel(boxes, "player") /\ SomeLabel(boxes, "ball")

HandleBoxesSelected ==
  /\ UserCanAct /\ SelectorRendered
  /\ cancelled' = FALSE
  /\ \E boxes \in BoxLists :
       /\ handled' = [boxes |-> boxes,
                      parity |-> IF handled = None THEN 0 ELSE 1 - handled.parity]
       /\ IF ~BoxesComplete(boxes)
            THEN /\ error' = ErrBoxes
                 /\ UNCHANGED <<isAnalyzing, progress, processingMessage, analysisId,
                                runVars, selectedBoxes, showBoundingBoxSelector>>
            ELSE /\ selectedBoxes' = boxes
                 /\ showBoundingBoxSelector' = FALSE
                 /\ StartTennisAnalysis(boxes)
  /\ UNCHANGED <<videoUrl, fileName, videoMetadata, showUploader, metaVars,
                 videoFile, localStorage, route, resVars>>

\* 'loadedmetadata' of the run's <video> (page.tsx:84, 89-97), then the loop head
RunVideoLoaded ==
  /\ route = "analysis" /\ pc = "loadMeta"
  /\ duration' = videoFile.duration
  /\ totalFrames' = TotalFrames(duration')
  /\ frames' = <<InitializeTennisTracker(selectedBoxes, videoMetadata.width,
                                         videoMetadata.height).initialFrame>>
  /\ ContinueLoop(1, totalFrames', frames')
  /\ UNCHANGED <<videoUrl, fileName, progress, analysisId, showBoundingBoxSelector,
                 selectedBoxes, videoMetadata, showUploader, metaVars, videoFile,
                 nextUuid, trackCalls, frameErrors, cancelled,
                 handled>>

\* 'error' of the run's <video> while the metadata is awaited (page.tsx:85)
RunVideoError ==
  /\ route = "analysis" /\ pc = "loadMeta"
  /\ RunCatch(ErrLoadVideo)
  /\ UNCHANGED <<videoUrl, fileName, progress, analysisId, processingMessage,
                 showBoundingBoxSelector, selectedBoxes, videoMetadata,
                 showUploader, metaVars, videoFile, nextUuid, duration,
                 totalFrames, frameIndex, frames, attempted, trackCalls,
                 frameErrors, generateArgs, cancelled,
                 handled>>

\* mutant: the inner catch rethrows, so the outer catch ends the run
FrameCatchMutant ==
  /\ frameErrors' = frameErrors + 1
  /\ RunCatch("boom")
  /\ UNCHANGED <<frameIndex, processingMessage, attempted, generateArgs>>
  /\ UNCHANGED <<frames, progress, trackCalls>>

\* the inner catch (page.tsx:156-159) and the loop's frameIndex++
FrameCatch ==
  /\ frameErrors' = frameErrors + 1
  /\ ContinueLoop(frameIndex + 1, totalFrames, frames)
  /\ UNCHANGED <<frames, progress, trackCalls>>

\* mutant: trackFrame is handed frames[0] instead of the last frame
SeekedMutant ==
  /\ route = "analysis" /\ pc = "seek"
  /\ \/ FrameCatch
     \/ /\ trackCalls' = Append(trackCalls,
                                [frameIndex |-> frameIndex,
                                 timestamp |-> Timestamp(frameIndex),
                                 previousFrame |-> frames[1]])
        /\ pc' = "track"
        /\ UNCHANGED <<frames, progress, frameErrors, frameIndex, attempted,
                       processingMessage, error, isAnalyzing, localStorage, route,
                       resVars, generateArgs>>
  /\ UNCHANGED <<videoUrl, fileName, analysisId, showBoundingBoxSelector,
                 selectedBoxes, videoMetadata, showUploader, metaVars, videoFile,
                 nextUuid, duration, totalFrames, cancelled, handled>>

\* 'seeked' (page.tsx:119-149): the frame is drawn and trackFrame is called,
\* or getContext returns null / toDataURL throws
Seeked ==
  /\ route = "analysis" /\ pc = "seek"
  /\ \/ FrameCatch
     \/ /\ trackCalls' = Append(trackCalls,
                                [frameIndex |-> frameIndex,
                                 timestamp |-> Timestamp(frameIndex),
                                 previousFrame |-> frames[Len(frames)]])
        /\ pc' = "track"
        /\ UNCHANGED <<frames, progress, frameErrors, frameIndex, attempted,
                       processingMessage, error, isAnalyzing, localStorage, route,
                       resVars, generateArgs>>
  /\ UNCHANGED <<videoUrl, fileName, analysisId, showBoundingBoxSelector,
                 selectedBoxes, videoMetadata, showUploader, metaVars, videoFile,
                 nextUuid, duration, totalFrames, cancelled,
                 handled>>

\* the media element fails while seeking: 'seeked' is never dispatched and the
\* promise of page.tsx:118-124 has no other way to settle
SeekNeverCompletes ==
  /\ route = "analysis" /\ pc = "seek"
  /\ pc' = "stalled"
  /\ UNCHANGED <<pageVars, metaVars, videoFile, nextUuid, duration, totalFrames,
                 frameIndex, frames, attempted, trackCalls, frameErrors,
                 generateArgs, localStorage, route, resVars, cancelled,
                 handled>>

\* trackFrame resolves (page.tsx:143-155)
TrackFrameResolved ==
  /\ route = "analysis" /\ pc = "track"
  /\ frames' = Append(frames, TrackFrame(frameIndex, Timestamp(frameIndex),
                                         frames[Len(frames)]))
  /\ progress' = Progress(frameIndex, totalFrames)
  /\ ContinueLoop(frameIndex + 1, totalFrames, frames')
  /\ UNCHANGED <<videoUrl, fileName, analysisId, showBoundingBoxSelector,
                 selectedBoxes, videoMetadata, showUploader, metaVars, videoFile,
                 nextUuid, duration, totalFrames, trackCalls, frameErrors,
                 cancelled,
                 handled>>

\* trackFrame rejects
TrackFrameRejected ==
  /\ route = "analysis" /\ pc = "track"
  /\ FrameCatch
  /\ UNCHANGED <<videoUrl, fileName, analysisId, showBoundingBoxSelector,
                 selectedBoxes, videoMetadata, showUploader, metaVars, videoFile,
                 nextUuid, duration, totalFrames, cancelled,
                 handled>>

\* -------------------------------------------------------- TennisResultsPage

\* what GET /api/analysis/<id> may answer with status 200
ApiAnalyses(id) ==
  {[id |-> id, video_url |-> "server.mp4", analysis_status |-> st, analysis_result |-> r] :
     st \in {"completed", "processing"},
     r \in {None, [summary |-> "text"]} \cup GenerateAnalysisResult(<<>>)}

\* analysis_result && analysis_result.frames && analysis_result.playerStats
IsTennisResult(r) ==
  /\ r # None
  /\ "frames" \in DOMAIN r
  /\ "playerStats" \in DOMAIN r

\* the VideoAnalysis built from the stored entry (page.tsx:389-397)
StoredAnalysis(id, url, parsed) ==
  [id |-> id, user_id |-> "client-user", video_url |-> OrElse(url, ""),
   sport_type |-> "tennis", analysis_status |-> "completed",
   analysis_result |-> parsed]

\* localStorage.getItem(key) is truthy
HasStored(id) == StorageKey(id) \in DOMAIN localStorage

\* mutant: the early return after the localStorage hit is missing
FetchAnalysisMutant ==
  /\ route = "results" /\ resPc = "mounted"
  /\ IF HasStored(resId)
       THEN /\ analysis' = StoredAnalysis(resId, resVideoUrl,
                                          JSONparse(localStorage[StorageKey(resId)]))
            /\ tennisAnalysis' = JSONparse(localStorage[StorageKey(resId)])
            /\ loading' = FALSE
       ELSE UNCHANGED <<analysis, tennisAnalysis, loading>>
  /\ apiFetched' = apiFetched \cup {resId}
  /\ resPc' = "fetching"
  /\ UNCHANGED <<pageVars, metaVars, videoFile, runVars, localStorage, route,
                 resId, resVideoUrl, resError, cancelled, handled>>

\* fetchAnalysis up to its first await (page.tsx:378-406)
FetchAnalysis ==
  /\ route = "results" /\ resPc = "mounted"
  /\ IF HasStored(resId)
       THEN /\ analysis' = StoredAnalysis(resId, resVideoUrl,
                                          JSONparse(localStorage[StorageKey(resId)]))
            /\ tennisAnalysis' = JSONparse(localStorage[StorageKey(resId)])
            /\ loading' = FALSE
            /\ resPc' = "done"
            /\ UNCHANGED apiFetched
       ELSE /\ apiFetched' = apiFetched \cup {resId}
            /\ resPc' = "fetching"
            /\ UNCHANGED <<analysis, tennisAnalysis, loading>>
  /\ UNCHANGED <<pageVars, metaVars, videoFile, runVars, localStorage, route,
                 resId, resVideoUrl, resError, cancelled,
                 handled>>

\* the answer of the API arrives (page.tsx:406-431)
ApiResponse ==
  /\ route = "results" /\ resPc = "fetching"
  /\ resPc' = "done"
  /\ loading' = FALSE
  /\ \/ \E m \in Messages :                       \* fetch or response.json() rejects
          /\ resError' = OrElse(m, ErrFetch)
          /\ UNCHANGED <<analysis, tennisAnalysis>>
     \/ \E e \in {NULL, "Analysis not found"} :   \* !response.ok
          /\ resError' = OrElse(OrElse(e, ErrFetchFailed), ErrFetch)
          /\ UNCHANGED <<analysis, tennisAnalysis>>
     \/ /\ analysis' = None                       \* data.analysis is undefined
        /\ resError' = OrElse(ErrUndefined, ErrFetch)
        /\ UNCHANGED tennisAnalysis
     \/ \E a \in ApiAnalyses(resId) :
          /\ analysis' = IF resVideoUrl # NULL
                           THEN [a EXCEPT !.video_url = resVideoUrl]
                           ELSE a
          /\ tennisAnalysis' = IF IsTennisResult(a.analysis_result)
                                 THEN a.analysis_result
                                 ELSE tennisAnalysis
          /\ UNCHANGED resError
  /\ UNCHANGED <<pageVars, metaVars, videoFile, runVars, localStorage, route,
                 resId, resVideoUrl, apiFetched, cancelled,
                 handled>>

\* ---------------------------------------------------------------- navigation

\* ids a visitor can put in the address bar: those handed out so far, and one
\* that only the server knows
ServerId == <<"server-", 0>>
KnownIds == {NewAnalysisId(n) : n \in 1..(nextUuid - 1)} \cup {ServerId}

\* /tennis/results/<id> opened directly: a page load, after which nothing of
\* the analysis page and of a run in progress is left
OpenResultsUrl ==
  /\ \E id \in KnownIds, url \in Urls \cup {NULL} :
       /\ id # resId
       /\ MountResults(id, url)
  /\ videoUrl' = NULL /\ fileName' = NULL /\ isAnalyzing' = FALSE
  /\ progress' = ZeroProgress /\ error' = NULL /\ analysisId' = None
  /\ processingMessage' = NULL /\ showBoundingBoxSelector' = FALSE
  /\ selectedBoxes' = None /\ videoMetadata' = None /\ showUploader' = FALSE
  /\ metaSrc' = NULL /\ metaState' = "none"
  /\ videoFile' = None
  /\ pc' = "idle" /\ duration' = 0 /\ totalFrames' = 0 /\ frameIndex' = 0
  /\ frames' = <<>> /\ attempted' = <<>> /\ trackCalls' = <<>>
  /\ frameErrors' = 0 /\ generateArgs' = None
  /\ cancelled' = FALSE /\ handled' = None
  /\ UNCHANGED <<nextUuid, localStorage>>

Next ==
  \/ StartPlayerAnalysis
  \/ UploaderBack
  \/ HandleUploadComplete
  \/ UseEffects
  \/ MetadataLoaded
  \/ MetadataError
  \/ HandleBoxSelectorCancel
  \/ HandleBoxesSelected
  \/ RunVideoLoaded
  \/ RunVideoError
  \/ Seeked
  \/ SeekNeverCompletes
  \/ TrackFrameResolved
  \/ TrackFrameRejected
  \/ FetchAnalysis
  \/ ApiResponse
  \/ OpenResultsUrl

Spec == Init /\ [][Next]_vars

\* Events the browser and React deliver once they are due: effects are flushed,
\* a loading <video> fires 'loadedmetadata' or 'error', a pending trackFrame
\* settles, a dispatched 'seeked' reaches its listener. Nothing obliges the user
\* to click, and nothing obliges a seek to complete.
FairSpec ==
  /\ Spec
  /\ WF_vars(UseEffects)
  /\ WF_vars(RunVideoLoaded \/ RunVideoError)
  /\ WF_vars(Seeked \/ SeekNeverCompletes)
  /\ WF_vars(TrackFrameResolved \/ TrackFrameRejected)

\* ===================================================================== claims

\* a box list holds a box with the given label (the claims' own reading)
HasLabel(boxes, label) == \E i \in DOMAIN boxes : boxes[i].label = label
HasBoth(boxes) == HasLabel(boxes, "player") /\ HasLabel(boxes, "ball")

\* handleBoxesSelected was called in this step
BoxesHandedOver == handled' # handled /\ handled' # None

\* C1: handleBoxesSelected(boxes) records the boxes, hides the selector and calls
\* startTennisAnalysis only when boxes holds a 'player' box and a 'ball' box; for
\* any other list it sets the error 'Please draw bounding boxes ...' and leaves
\* selectedBoxes, showBoundingBoxSelector, isAnalyzing, progress, analysisId alone.
C1_BoxesGate ==
  [][BoxesHandedOver =>
       IF HasBoth(handled'.boxes)
         THEN /\ selectedBoxes' = handled'.boxes
              /\ ~showBoundingBoxSelector'
              /\ (error' = ErrNotLoaded \/ analysisId' # analysisId)
         ELSE /\ error' = ErrBoxes
              /\ UNCHANGED <<selectedBoxes, showBoundingBoxSelector, isAnalyzing,
                             progress, analysisId>>]_vars

\* a list with only a player box was handed over and refused
C1_Witness ==
  /\ handled # None
  /\ HasLabel(handled.boxes, "player") /\ ~HasLabel(handled.boxes, "ball")
  /\ error = ErrBoxes
  /\ selectedBoxes = None /\ analysisId = None /\ showBoundingBoxSelector

\* C2: a run navigates to /tennis/results/<id> only with the result of
\* generateAnalysisResult stored under analysis-<id> for that id, and
\* generateAnalysisResult is called only once every frame index was attempted.
C2_StoredBeforeNavigation ==
  /\ pc = "navigated" =>
       /\ route = "results" /\ resId = analysisId
       /\ StorageKey(analysisId) \in DOMAIN localStorage
       /\ generateArgs # None
       /\ \E r \in GenerateAnalysisResult(generateArgs) :
            localStorage[StorageKey(analysisId)] = JSONstringify(r)
  /\ generateArgs # None =>
       /\ pc \in {"navigated", "failed"}
       /\ {attempted[i].frameIndex : i \in DOMAIN attempted} = 1..(totalFrames - 1)

\* a run with four attempted frames, one of them failed, has navigated
C2_Witness ==
  /\ pc = "navigated" /\ Len(attempted) >= 3 /\ frameErrors >= 1
  /\ Len(frames) >= 2

\* C3: every analysis started by startTennisAnalysis eventually ends: it navigates
\* to the results page or sets an error with isAnalyzing false (an unloaded page
\* counts as ended too).
C3_EveryRunEnds ==
  isAnalyzing ~> \/ pc = "navigated"
                 \/ (error # NULL /\ ~isAnalyzing)
                 \/ route = "results"

\* C4: the results page reads localStorage first: with an entry under analysis-X it
\* ends with loading false, status 'completed' and tennisAnalysis the stored
\* value, and /api/analysis/X is not fetched; the API is fetched only without an
\* entry. After a run navigated to X the page shows the stored report.
C4_LocalStorageFirst ==
  /\ resPc = "fetching" => ~HasStored(resId)
  /\ \A id \in apiFetched : ~HasStored(id)
  /\ (route = "results" /\ resPc = "done" /\ HasStored(resId)) =>
       /\ ~loading
       /\ analysis # None /\ analysis.analysis_status = "completed"
       /\ tennisAnalysis = JSONparse(localStorage[StorageKey(resId)])
       /\ analysis.analysis_result = tennisAnalysis
       /\ resError = NULL
  /\ (pc = "navigated" /\ resPc = "done") =>
       /\ HasStored(resId) /\ resId \notin apiFetched
       /\ tennisAnalysis.frames = generateArgs

\* the results page after a run shows the stored report of two or more frames,
\* in which the NaN of the generated result reads back as null
C4_Witness ==
  /\ pc = "navigated" /\ resPc = "done" /\ ~loading
  /\ tennisAnalysis # None
  /\ tennisAnalysis.playerStats.averageSpeed = "null"
  /\ Len(tennisAnalysis.frames) >= 2

C6_FrameFailureIsLocal ==
  [][frameErrors' > frameErrors =>
       /\ frames' = frames
       /\ progress' = progress
       /\ frameIndex' = frameIndex + 1
       /\ IF frameIndex + 1 < totalFrames
            THEN /\ pc' = "seek" /\ isAnalyzing'
                 /\ error' = error /\ generateArgs' = None
            ELSE /\ generateArgs' = frames
                 /\ pc' \in {"navigated", "failed"}
                 /\ pc' = "navigated" => error' = error /\ isAnalyzing']_vars

\* a run with failed and with tracked frames reached the results page
C6_Witness ==
  /\ pc = "navigated" /\ frameErrors >= 1
  /\ Len(generateArgs) >= 2 /\ Len(generateArgs) < totalFrames

\* the run ended in the outer catch in this step
RunFailsNow == pc' = "failed" /\ (pc # "failed" \/ analysisId' # analysisId)

\* C7: a run that fails outside the per-frame handler ends with a non-null error
\* message and isAnalyzing false, without navigation and with nothing stored under
\* analysis-<id>; a run requested without videoUrl or videoMetadata sets 'Video
\* not properly loaded. Please try again.' and never sets isAnalyzing.
C7_OuterFailure ==
  [][/\ RunFailsNow =>
          /\ error' \notin {NULL, ""}
          /\ ~isAnalyzing'
          /\ route' = "analysis"
          /\ StorageKey(analysisId') \notin DOMAIN localStorage'
     /\ (BoxesHandedOver /\ HasBoth(handled'.boxes)
           /\ (videoUrl = NULL \/ videoMetadata = None)) =>
          /\ error' = ErrNotLoaded
          /\ ~isAnalyzing /\ ~isAnalyzing'
          /\ analysisId' = analysisId /\ pc' = pc]_vars

\* generateAnalysisResult threw an error without a message: the fallback is shown
C7_Witness ==
  /\ pc = "failed" /\ generateArgs # None
  /\ error = ErrAnalyzing /\ ~isAnalyzing
  /\ route = "analysis"

MessageRank(m) ==
  CASE m = MsgInit -> 1
    [] m = MsgExtract -> 2
    [] m = MsgTrack -> 3
    [] m = MsgAnalyze -> 4
    [] OTHER -> 0

\* progress is below 100 and is frameIndex/totalFrames*100 of the last tracked frame
C8_ProgressValue ==
  /\ progress.num < 100 * progress.den
  /\ IF Len(frames) <= 1
       THEN progress.num = 0
       ELSE progress.num * totalFrames = 100 * frames[Len(frames)].frameIndex * progress.den

\* C8: during one run progress starts at 0, never decreases and stays below 100
\* (frameIndex/totalFrames*100 of the last tracked frame), and the processing
\* message never moves back in the order Initializing, Extracting, Tracking,
\* Analyzing.
C8_ProgressMonotone ==
  /\ []C8_ProgressValue
  /\ [][/\ (analysisId' # analysisId /\ analysisId' # None) =>
             progress'.num = 0 /\ processingMessage' = MsgInit
        /\ analysisId' = analysisId =>
             /\ progress'.num * progress.den >= progress.num * progress'.den
             /\ MessageRank(processingMessage') >= MessageRank(processingMessage)]_vars

\* the third message is shown with progress at a half or more
C8_Witness ==
  /\ processingMessage = MsgAnalyze /\ Len(frames) >= 3
  /\ progress.num * 2 >= progress.den * 100
  /\ pc = "seek"

\* C9: after handleBoxSelectorCancel, once the effects have run, the selector and
\* the uploader are hidden and the chooser is shown, until the user starts
\* player analysis again.
C9_CancelClosesSelector ==
  (cancelled /\ route = "analysis" /\ ~EffectsPending) =>
     /\ ~showBoundingBoxSelector /\ ~showUploader
     /\ ChooserRendered

\* C10: exactly one of the four panels is rendered in every state, and
\* showBoundingBoxSelector is never true while videoUrl is null.
C10_OnePanel ==
  /\ Cardinality({p \in {"chooser", "uploader", "selector", "analyzing"} :
        \/ p = "chooser" /\ ~showUploader /\ ~showBoundingBoxSelector /\ ~isAnalyzing
        \/ p = "uploader" /\ showUploader /\ ~showBoundingBoxSelector /\ ~isAnalyzing
        \/ p = "selector" /\ videoUrl # NULL /\ showBoundingBoxSelector /\ ~isAnalyzing
        \/ p = "analyzing" /\ isAnalyzing}) = 1
  /\ showBoundingBoxSelector => videoUrl # NULL

\* the selector is the one panel shown although showUploader is still set
C10_Witness ==
  /\ route = "analysis"
  /\ showUploader /\ showBoundingBoxSelector /\ videoUrl # NULL /\ ~isAnalyzing
  /\ error # NULL

====
